---------------------------- MODULE Spec2Model ----------------------------
(***************************************************************************)
(* Receipt ledger writer of receipt-scanner/google_apps_script.js:         *)
(* doPost (lines 27-132), findDuplicate (138-181), migrateOldRows          *)
(* (238-277), writeDebugLog (282-333); and the details panels of           *)
(* eco/script.js: toggleDetails (52-82) and the key handler (168-181).     *)
(*                                                                         *)
(* Text is a sequence of one-character strings.  A JavaScript value is a   *)
(* record [t, s, n]: t is the type tag, s the characters of a string, n    *)
(* the value of a number or boolean.  The sheet is the sequence of its     *)
(* rows, each row a sequence of 11 cells; cells keep the value written to  *)
(* them.  Concurrent executions of doPost interleave between calls of the  *)
(* spreadsheet service; every such call is one atomic step.                *)
(***************************************************************************)
EXTENDS Integers, Sequences, FiniteSets, TLC

\* ------------------------------------------------------------------ bounds
\* Number of requests received in one behaviour of the concurrent specification.
MaxRequests == 2
\* Number of requests received in one behaviour of the sequential specification.
MaxSeqRequests == 3
\* Number of requests received in one behaviour of the migration specification.
MaxMigrateRequests == 2
\* Number of .result-details panels of the directory page.
MaxPanels == 3
\* Largest number of data rows of a pre-populated sheet of the matcher
\* specification.
MaxStored == 2

\* The slots in which doPost executes: two executions may be in progress at the
\* same time, which is what a race between requests takes.
Procs == {1, 2}

\* ------------------------------------------------------- JavaScript values
Undefined == [t |-> "undefined", s |-> <<>>, n |-> 0]
Str(chars) == [t |-> "string", s |-> chars, n |-> 0]
Num(k) == [t |-> "number", s |-> <<>>, n |-> k]
Bool(b) == [t |-> "boolean", s |-> <<>>, n |-> IF b THEN 1 ELSE 0]
EmptyStr == Str(<<>>)

\* JavaScript truthiness: undefined, '', 0 and false are falsy.
Truthy(v) ==
  CASE v.t = "string" -> v.s # <<>>
    [] v.t = "number" -> v.n # 0
    [] v.t = "boolean" -> v.n = 1
    [] OTHER -> FALSE

\* a || b
Or(a, b) == IF Truthy(a) THEN a ELSE b

DigitChar(d) ==
  CASE d = 0 -> "0" [] d = 1 -> "1" [] d = 2 -> "2" [] d = 3 -> "3"
    [] d = 4 -> "4" [] d = 5 -> "5" [] d = 6 -> "6" [] d = 7 -> "7"
    [] d = 8 -> "8" [] OTHER -> "9"

RECURSIVE Digits(_)
Digits(k) == IF k < 10 THEN <<DigitChar(k)>>
             ELSE Digits(k \div 10) \o <<DigitChar(k % 10)>>

\* String conversion of a template literal `${v}` and of v.toString() where
\* v is a string or a number.
ToStringChars(v) ==
  CASE v.t = "string" -> v.s
    [] v.t = "number" -> Digits(v.n)
    [] v.t = "boolean" -> IF v.n = 1 THEN <<"t","r","u","e">>
                          ELSE <<"f","a","l","s","e">>
    [] OTHER -> <<"u","n","d","e","f","i","n","e","d">>

LowerChar(c) ==
  CASE c = "A" -> "a" [] c = "B" -> "b" [] c = "C" -> "c" [] c = "D" -> "d"
    [] c = "E" -> "e" [] c = "F" -> "f" [] c = "G" -> "g" [] c = "H" -> "h"
    [] c = "I" -> "i" [] c = "J" -> "j" [] c = "K" -> "k" [] c = "L" -> "l"
    [] c = "M" -> "m" [] c = "N" -> "n" [] c = "O" -> "o" [] c = "P" -> "p"
    [] c = "Q" -> "q" [] c = "R" -> "r" [] c = "S" -> "s" [] c = "T" -> "t"
    [] c = "U" -> "u" [] c = "V" -> "v" [] c = "W" -> "w" [] c = "X" -> "x"
    [] c = "Y" -> "y" [] c = "Z" -> "z" [] OTHER -> c

\* String.prototype.toLowerCase
ToLowerCase(chars) == [i \in 1..Len(chars) |-> LowerChar(chars[i])]

IsSpace(c) == c = " "

RECURSIVE TrimStart(_)
TrimStart(chars) ==
  IF chars # <<>> /\ IsSpace(Head(chars)) THEN TrimStart(Tail(chars)) ELSE chars

RECURSIVE TrimEnd(_)
TrimEnd(chars) ==
  IF chars # <<>> /\ IsSpace(chars[Len(chars)])
  THEN TrimEnd(SubSeq(chars, 1, Len(chars) - 1))
  ELSE chars

\* String.prototype.trim
Trim(chars) == TrimEnd(TrimStart(chars))


\* ------------------------------------------------------------ the ledger
\* The header row doPost writes to an empty sheet (lines 40-52).
HeaderRow == <<
  Str(<<"D","a","t","e">>),
  Str(<<"T","i","m","e">>),
  Str(<<"M","e","r","c","h","a","n","t">>),
  Str(<<"T","o","t","a","l">>),
  Str(<<"C","u","r","r","e","n","c","y">>),
  Str(<<"T","a","x">>),
  Str(<<"I","t","e","m"," ","C","o","u","n","t">>),
  Str(<<"I","t","e","m","s"," ","(","D","e","s","c","r","i","p","t","i","o","n"," ","x"," ","Q","t","y"," ","@"," ","P","r","i","c","e",")">>),
  Str(<<"T","i","m","e","s","t","a","m","p">>),
  Str(<<"R","a","w"," ","D","a","t","e">>),
  Str(<<"R","a","w"," ","T","o","t","a","l">> ) >>

\* new Date().toISOString(): the text of the logical clock's reading.
ToISOString(now) == Str(<<"T">> \o Digits(now))

\* `${item.description} x${item.quantity} @ ${data.currency} ${item.price}`
ItemText(item, data) ==
  ToStringChars(item.description) \o <<" ","x">> \o ToStringChars(item.quantity)
    \o <<" ","@"," ">> \o ToStringChars(data.currency) \o <<" ">>
    \o ToStringChars(item.price)

\* items.map(...).join('; ') from item i on.
RECURSIVE JoinItems(_, _, _)
JoinItems(items, i, data) ==
  IF i > Len(items) THEN <<>>
  ELSE IF i = Len(items) THEN ItemText(items[i], data)
  ELSE ItemText(items[i], data) \o <<";"," ">> \o JoinItems(items, i + 1, data)

\* Lines 84-91.  An array, even an empty one, is truthy.
ItemsText(data) ==
  IF data.items.t = "array" /\ Len(data.items.a) > 0
  THEN Str(JoinItems(data.items.a, 1, data))
  ELSE Str(<<"N","o"," ","i","t","e","m","s">>)

\* Reading a property of a null item raises a TypeError inside the map callback.
ItemsTextThrows(data) ==
  /\ data.items.t = "array"
  /\ \E i \in 1..Len(data.items.a) : data.items.a[i].isNull

\* data.items ? data.items.length : 0
ItemCount(data) == IF data.items.t = "array" THEN Num(Len(data.items.a)) ELSE Num(0)

\* The row doPost prepares (lines 94-106).
RowData(data, now) == <<
  Or(data.date, EmptyStr),
  Or(data.time, EmptyStr),
  Or(data.merchantName, Str(<<"U","n","k","n","o","w","n">>)),
  Or(data.total, Str(<<"0",".","0","0">>)),
  Or(data.currency, Str(<<"U","S","D">>)),
  Or(data.tax, Str(<<"0",".","0","0">>)),
  ItemCount(data),
  ItemsText(data),
  ToISOString(now),
  Or(data.date, EmptyStr),
  Or(data.total, EmptyStr) >>

\* ------------------------------------------------------------ findDuplicate
\* Lines 154-158: the fields of a stored row that are compared.
StoredMerchant(row) == row[3]
StoredRawDate(row) == Or(row[10], row[1])
StoredRawTotal(row) == Or(row[11], row[4])

\* The merchant comparison of the earlier revision, which does not trim.
MerchantMatchUntrimmed(row, newReceipt) ==
  ToLowerCase(Or(StoredMerchant(row), EmptyStr).s)
    = ToLowerCase(Or(newReceipt.merchantName, EmptyStr).s)

\* Line 161.
MerchantMatch(row, newReceipt) ==
  Trim(ToLowerCase(Or(StoredMerchant(row), EmptyStr).s))
    = Trim(ToLowerCase(Or(newReceipt.merchantName, EmptyStr).s))

\* Line 162.
DateMatch(row, newReceipt) ==
  Trim(ToStringChars(Or(StoredRawDate(row), EmptyStr)))
    = Trim(ToStringChars(Or(newReceipt.date, EmptyStr)))

\* Line 163.
TotalMatch(row, newReceipt) ==
  Trim(ToStringChars(Or(StoredRawTotal(row), EmptyStr)))
    = Trim(ToStringChars(Or(newReceipt.total, EmptyStr)))

\* toLowerCase exists on strings only: line 161 raises a TypeError otherwise.
MatchThrows(row, newReceipt) ==
  \/ Or(StoredMerchant(row), EmptyStr).t # "string"
  \/ Or(newReceipt.merchantName, EmptyStr).t # "string"

\* A match decided on merchant and date alone.
RowMatchesWithoutTotal(row, newReceipt) ==
  MerchantMatch(row, newReceipt) /\ DateMatch(row, newReceipt)

\* Line 167.
RowMatches(row, newReceipt) ==
  MerchantMatch(row, newReceipt) /\ DateMatch(row, newReceipt)
    /\ TotalMatch(row, newReceipt)

NoDuplicate == [kind |-> "null", row |-> 0,
                data |-> [merchant |-> Undefined, date |-> Undefined, total |-> Undefined]]

\* The loop run from the last row to the first: the latest match wins.
RECURSIVE ScanRowsBackwards(_, _, _)
ScanRowsBackwards(data, i, newReceipt) ==
  LET k == Len(data) + 1 - i IN
  IF i > Len(data) THEN NoDuplicate
  ELSE IF MatchThrows(data[k], newReceipt)
       THEN [NoDuplicate EXCEPT !.kind = "throw"]
  ELSE IF RowMatches(data[k], newReceipt)
       THEN [kind |-> "dup", row |-> k + 1,
             data |-> [merchant |-> StoredMerchant(data[k]),
                       date |-> StoredRawDate(data[k]),
                       total |-> StoredRawTotal(data[k])]]
  ELSE ScanRowsBackwards(data, i + 1, newReceipt)

\* The loop of lines 151-178 from index i of data (the rows below the header);
\* data[i] is sheet row i + 1.
RECURSIVE ScanRows(_, _, _)
ScanRows(data, i, newReceipt) ==
  IF i > Len(data) THEN NoDuplicate
  ELSE IF MatchThrows(data[i], newReceipt)
       THEN [NoDuplicate EXCEPT !.kind = "throw"]
  ELSE IF RowMatches(data[i], newReceipt)
       THEN [kind |-> "dup", row |-> i + 1,
             data |-> [merchant |-> StoredMerchant(data[i]),
                       date |-> StoredRawDate(data[i]),
                       total |-> StoredRawTotal(data[i])]]
  ELSE ScanRows(data, i + 1, newReceipt)

\* The range started one row too low: the first data row is not read.
GetDataRowsBelowFirst(sh, lastRow) == SubSeq(sh, 3, lastRow)

\* sheet.getRange(2, 1, lastRow - 1, 11).getValues() (line 148).
GetDataRows(sh, lastRow) == SubSeq(sh, 2, lastRow)

\* findDuplicate applied to a sheet read in one piece.
FindDuplicate(sh, newReceipt) ==
  IF Len(sh) <= 1 THEN NoDuplicate
  ELSE ScanRows(GetDataRows(sh, Len(sh)), 1, newReceipt)

\* ------------------------------------------------------------ writeDebugLog
DebugHeader == <<
  Str(<<"T","i","m","e","s","t","a","m","p">>),
  Str(<<"R","e","s","u","l","t">>),
  Str(<<"I","n","c"," ","M","e","r","c","h","a","n","t">>),
  Str(<<"I","n","c"," ","D","a","t","e">>),
  Str(<<"I","n","c"," ","T","o","t","a","l">>),
  Str(<<"S","h","e","e","t"," ","R","o","w"," ","2"," ","C","o","l"," ","J"," ","(","R","a","w","D","a","t","e",")">>),
  Str(<<"S","h","e","e","t"," ","R","o","w"," ","2"," ","C","o","l"," ","K"," ","(","R","a","w","T","o","t","a","l",")">>),
  Str(<<"S","h","e","e","t"," ","R","o","w"," ","2"," ","C","o","l"," ","C"," ","(","M","e","r","c","h","a","n","t",")">>) >>

EmptyMark == Str(<<"(","e","m","p","t","y",")">>)

\* 'DUPLICATE FOUND' or 'NO DUPLICATE' (lines 68 and 78).
DebugResult(duplicate) ==
  IF duplicate.kind = "dup"
  THEN Str(<<"D","U","P","L","I","C","A","T","E"," ","F","O","U","N","D">>)
  ELSE Str(<<"N","O"," ","D","U","P","L","I","C","A","T","E">>)

\* The Debug sheet once its header is in place (lines 288-299).
WithDebugHeader(dbg) ==
  IF ~dbg.exists THEN <<DebugHeader>>
  ELSE IF Len(dbg.rows) = 0 \/ dbg.rows[1][1] # DebugHeader[1]
       THEN <<DebugHeader>> \o dbg.rows
  ELSE dbg.rows

\* The row appended to the Debug sheet (lines 302-327).
DebugRow(sh, newReceipt, duplicate, now) ==
  LET hasRow2 == Len(sh) > 1
      sheetMerchant == IF hasRow2 THEN Or(sh[2][3], EmptyStr) ELSE EmptyStr
      sheetRawDate == IF hasRow2 THEN Or(sh[2][10], EmptyStr) ELSE EmptyStr
      sheetRawTotal == IF hasRow2 THEN Or(sh[2][11], EmptyStr) ELSE EmptyStr
  IN << ToISOString(now),
        DebugResult(duplicate),
        Or(newReceipt.merchantName, EmptyStr),
        Or(newReceipt.date, EmptyStr),
        Or(newReceipt.total, EmptyStr),
        Or(sheetRawDate, EmptyMark),
        Or(sheetRawTotal, EmptyMark),
        Or(sheetMerchant, EmptyMark) >>

\* ------------------------------------------------------------------ requests
NoItems == [t |-> "undefined", a |-> <<>>]
Array(a) == [t |-> "array", a |-> a]
NullItem == [isNull |-> TRUE, description |-> Undefined, quantity |-> Undefined,
             price |-> Undefined]
Item(d, q, pr) == [isNull |-> FALSE, description |-> d, quantity |-> q, price |-> pr]

\* The object JSON.parse returns for a well-formed body (a ReceiptRecord).
Receipt(m, d, t, c, it, f) ==
  [merchantName |-> m, date |-> d, time |-> Undefined, total |-> t,
   currency |-> c, tax |-> Undefined, items |-> it, force |-> f]

NoReceipt == Receipt(Undefined, Undefined, Undefined, Undefined, NoItems, Undefined)

\* e.postData.contents: ok is whether JSON.parse accepts the text.
WellFormed(body) == [ok |-> TRUE, body |-> body]
Malformed == [ok |-> FALSE, body |-> NoReceipt]

Acme == Str(<<"A","c","m","e">>)
AcmePadded == Str(<<" "," ","a","c","m","e"," ">>)
Bolt == Str(<<"B","o","l","t">>)
Jan1 == Str(<<"2","0","2","4","-","0","1","-","0","1">>)
Jan1Padded == Str(<<"2","0","2","4","-","0","1","-","0","1"," ">>)
Jan2 == Str(<<"2","0","2","4","-","0","1","-","0","2">>)
Ten00 == Str(<<"1","0",".","0","0">>)
Ten00Padded == Str(<<" ","1","0",".","0","0">>)
Ten01 == Str(<<"1","0",".","0","1">>)
USD == Str(<<"U","S","D">>)
Coffee == Item(Str(<<"C","o","f","f","e","e">>), Num(1), Str(<<"3",".","5","0">>))
Tea == Item(Str(<<"T","e","a">>), Num(2), Str(<<"2",".","0","0">>))

\* Requests of the concurrent specification.
Requests == {
  WellFormed(Receipt(Acme, Jan1, Ten00, USD, NoItems, Undefined)),
  WellFormed(Receipt(AcmePadded, Jan1, Ten00, USD, NoItems, Bool(TRUE))),
  WellFormed(Receipt(Bolt, Jan1, Ten00, USD, NoItems, Undefined)) }

\* Requests of the sequential specification.
SeqRequests == {
  WellFormed(Receipt(Acme, Jan1, Ten00, USD, Array(<<Coffee>>), Undefined)),
  WellFormed(Receipt(Acme, Jan1, Ten00, Undefined, Array(<<Coffee, Tea>>), Bool(TRUE))),
  WellFormed(Receipt(Undefined, Jan1, Ten00, Undefined, Array(<<>>), Undefined)),
  WellFormed(Receipt(Acme, Jan1, Undefined, USD, Array(<<NullItem>>), Undefined)),
  Malformed }

\* --------------------------------------------------------------------- state
VARIABLES
  sheet,       \* the active sheet: its rows, top to bottom
  writer,      \* for each row of the sheet, the request whose execution wrote it
  debugSheet,  \* the sheet named 'Debug': [exists, rows]
  proc,        \* per execution of doPost: its position and its local variables
  received,    \* number of requests received so far
  log,         \* the finished executions, in the order they returned
  page,        \* the directory page of eco/script.js: for each .result-details
               \* panel, whether its classList contains 'active', and the
               \* aria-expanded attribute of its previousElementSibling
  calls        \* the last two calls of toggleDetails, the latest last

vars == <<sheet, writer, debugSheet, proc, received, log, page, calls>>

\* The .result-details panels of the page, each named by its id; every panel
\* follows its result row.  Id 0 names no element of the page.
Panels == 1..MaxPanels
Ids == 0..MaxPanels

\* Values of a row's aria-expanded attribute ("none": the attribute is not set).
AriaValues == {"true", "false", "none"}

\* The page with every panel closed.
ClosedPage == [active |-> [d \in Panels |-> FALSE],
               ariaExpanded |-> [d \in Panels |-> "false"]]

\* The reading new Date() gives: the clock ticks as requests arrive.
Now == received

\* An execution slot with no request in progress.
Idle == [pc |-> "idle", id |-> 0, data |-> NoReceipt, lastRow |-> 0, values |-> <<>>,
         duplicate |-> NoDuplicate, rowData |-> <<>>, newRow |-> 0,
         wrote |-> {}, checked |-> FALSE, scanned |-> FALSE, before |-> 0,
         startRows |-> 0]

\* Number of rows below row 1.
DataRowCount(sh) == IF Len(sh) = 0 THEN 0 ELSE Len(sh) - 1

\* createCorsResponse of the three kinds of object doPost returns.
Accepted(row) == [kind |-> "Accepted", row |-> row, existingReceipt |-> NoDuplicate.data]
Duplicate(dup) == [kind |-> "Duplicate", row |-> dup.row, existingReceipt |-> dup.data]
Failure == [kind |-> "Failure", row |-> 0, existingReceipt |-> NoDuplicate.data]

\* doPost returns `response`: the execution ends and is recorded with what it
\* did (sh is the sheet as this step leaves it).
Return(p, me, response, sh) ==
  /\ UNCHANGED <<page, calls>>
  /\ proc' = [proc EXCEPT ![p] = Idle]
  /\ log' = Append(log, [id |-> me.id, data |-> me.data, response |-> response,
                         wrote |-> me.wrote, checked |-> me.checked,
                         lastRow |-> me.lastRow, scanned |-> me.scanned,
                         values |-> me.values, rowData |-> me.rowData,
                         newRow |-> me.newRow,
                         before |-> me.before,
                         startRows |-> me.startRows,
                         endRows |-> DataRowCount(sh)])

Goto(p, me) == proc' = [proc EXCEPT ![p] = me] /\ UNCHANGED <<page, calls>>

\* The force flag ignored: the duplicate check always runs.
AfterHeaderIgnoringForce(data) == "findDuplicate"

\* Line 62: where doPost continues once the header is settled.
AfterHeader(data) == IF ~Truthy(data.force) THEN "findDuplicate" ELSE "itemsText"

Init ==
  /\ sheet = <<>>
  /\ writer = <<>>
  /\ debugSheet = [exists |-> FALSE, rows |-> <<>>]
  /\ proc = [p \in Procs |-> Idle]
  /\ received = 0
  /\ log = <<>>
  /\ page = ClosedPage
  /\ calls = <<>>

\* ------------------------------------------------------------------- doPost
\* Line 30 raises: the body is not JSON.
ParseFails(p, request) ==
  /\ proc[p].pc = "idle"
  /\ ~request.ok
  /\ received' = received + 1
  /\ Return(p, [proc[p] EXCEPT !.id = received + 1, !.before = Len(log),
                               !.startRows = DataRowCount(sheet)], Failure, sheet)
  /\ UNCHANGED <<sheet, writer, debugSheet>>

\* Lines 27-36: a request arrives and is parsed.
DoPost(p, request) ==
  /\ proc[p].pc = "idle"
  /\ request.ok
  /\ received' = received + 1
  /\ Goto(p, [proc[p] EXCEPT !.pc = "getLastRow", !.id = received + 1,
                             !.data = request.body,
                             !.before = Len(log),
                             !.startRows = DataRowCount(sheet)])
  /\ UNCHANGED <<sheet, writer, debugSheet, log>>

\* Line 39: sheet.getLastRow() === 0.
HeaderCheck(p) ==
  /\ proc[p].pc = "getLastRow"
  /\ Goto(p, [proc[p] EXCEPT !.pc = IF Len(sheet) = 0 THEN "appendHeader"
                                    ELSE AfterHeader(proc[p].data)])
  /\ UNCHANGED <<sheet, writer, debugSheet, received, log>>

\* Lines 40-58: appendRow puts the header below the last row with content.
AppendHeader(p) ==
  /\ proc[p].pc = "appendHeader"
  /\ sheet' = Append(sheet, HeaderRow)
  /\ writer' = Append(writer, proc[p].id)
  /\ Goto(p, [proc[p] EXCEPT !.pc = AfterHeader(proc[p].data),
                             !.wrote = @ \cup {"header"}])
  /\ UNCHANGED <<debugSheet, received, log>>

\* findDuplicate without the early return of lines 142-144: the range is read
\* whatever the row count.
FindDuplicateLastRowThenScan(p) ==
  /\ proc[p].pc = "findDuplicate"
  /\ Goto(p, [proc[p] EXCEPT !.checked = TRUE,
                             !.lastRow = Len(sheet),
                             !.pc = "getValues"])
  /\ UNCHANGED <<sheet, writer, debugSheet, received, log>>

\* Lines 139-144: findDuplicate reads the row count.
FindDuplicateLastRow(p) ==
  /\ proc[p].pc = "findDuplicate"
  /\ Goto(p, [proc[p] EXCEPT !.checked = TRUE,
                             !.lastRow = Len(sheet),
                             !.pc = IF Len(sheet) <= 1 THEN "writeDebugLog"
                                    ELSE "getValues"])
  /\ UNCHANGED <<sheet, writer, debugSheet, received, log>>

\* Lines 148-180: findDuplicate reads the data rows and scans them.
FindDuplicateScan(p) ==
  /\ proc[p].pc = "getValues"
  /\ LET data == GetDataRows(sheet, proc[p].lastRow)
         duplicate == ScanRows(data, 1, proc[p].data)
         me == [proc[p] EXCEPT !.values = data, !.duplicate = duplicate,
                               !.scanned = TRUE, !.pc = "writeDebugLog"]
     IN IF duplicate.kind = "throw"
        THEN Return(p, me, Failure, sheet)
        ELSE Goto(p, me) /\ UNCHANGED log
  /\ UNCHANGED <<sheet, writer, debugSheet, received>>

\* writeDebugLog followed by a save that precedes the duplicate warning: the
\* candidate is written below the last row before Duplicate is returned.
WriteDebugLogThenSave(p) ==
  /\ proc[p].pc = "writeDebugLog"
  /\ debugSheet' = [exists |-> TRUE,
                    rows |-> Append(WithDebugHeader(debugSheet),
                                    DebugRow(sheet, proc[p].data,
                                             proc[p].duplicate, Now))]
  /\ IF proc[p].duplicate.kind = "dup"
     THEN /\ sheet' = Append(sheet, RowData(proc[p].data, Now))
          /\ writer' = Append(writer, proc[p].id)
          /\ Return(p, [proc[p] EXCEPT !.wrote = @ \cup {"debug", "row"}],
                    Duplicate(proc[p].duplicate), sheet')
     ELSE /\ Goto(p, [proc[p] EXCEPT !.pc = "itemsText",
                                     !.wrote = @ \cup {"debug"}])
          /\ UNCHANGED <<sheet, writer, log>>
  /\ UNCHANGED received

\* Lines 65-78: the debug record is written (or the attempt fails and is
\* swallowed by writeDebugLog's own catch), then a duplicate is reported.
WriteDebugLog(p) ==
  /\ proc[p].pc = "writeDebugLog"
  /\ \E logged \in BOOLEAN :
       /\ IF logged
          THEN /\ debugSheet' = [exists |-> TRUE,
                                 rows |-> Append(WithDebugHeader(debugSheet),
                                                 DebugRow(sheet, proc[p].data,
                                                          proc[p].duplicate, Now))]
          ELSE UNCHANGED debugSheet
       /\ LET me == [proc[p] EXCEPT !.pc = "itemsText",
                                    !.wrote = IF logged THEN @ \cup {"debug"} ELSE @]
          IN IF proc[p].duplicate.kind = "dup"
             THEN Return(p, me, Duplicate(proc[p].duplicate), sheet)
             ELSE Goto(p, me) /\ UNCHANGED log
  /\ UNCHANGED <<sheet, writer, received>>

\* Lines 84-106: itemsText and rowData are computed.
PrepareRow(p) ==
  /\ proc[p].pc = "itemsText"
  /\ IF ItemsTextThrows(proc[p].data)
     THEN Return(p, proc[p], Failure, sheet)
     ELSE /\ Goto(p, [proc[p] EXCEPT !.rowData = RowData(proc[p].data, Now),
                                     !.pc = "newRow"])
          /\ UNCHANGED log
  /\ UNCHANGED <<sheet, writer, debugSheet, received>>

\* Line 109: newRow = sheet.getLastRow() + 1.
GetNewRow(p) ==
  /\ proc[p].pc = "newRow"
  /\ Goto(p, [proc[p] EXCEPT !.newRow = Len(sheet) + 1, !.pc = "setValues"])
  /\ UNCHANGED <<sheet, writer, debugSheet, received, log>>

\* getRange(row, 1, 1, 11).setValues([rowData]) on sheet sh.
SetRow(sh, row, rowData) ==
  IF row = Len(sh) + 1 THEN Append(sh, rowData)
  ELSE [sh EXCEPT ![row] = rowData]

\* Line 110.
SetValues(p) ==
  /\ proc[p].pc = "setValues"
  /\ sheet' = SetRow(sheet, proc[p].newRow, proc[p].rowData)
  /\ writer' = SetRow(writer, proc[p].newRow, proc[p].id)
  /\ Goto(p, [proc[p] EXCEPT !.pc = "respond", !.wrote = @ \cup {"row"}])
  /\ UNCHANGED <<debugSheet, received, log>>

\* Lines 113-123: the row is formatted and its position read back.
Respond(p) ==
  /\ proc[p].pc = "respond"
  /\ Return(p, proc[p], Accepted(Len(sheet)), sheet)
  /\ UNCHANGED <<sheet, writer, debugSheet, received>>

\* The exception of a call of the spreadsheet service leaves doPost: the
\* execution ends without a response.
StoreThrowsUncaught(p) ==
  /\ proc[p].pc \in {"getLastRow", "appendHeader", "findDuplicate", "getValues",
                     "newRow", "setValues", "respond"}
  /\ proc' = [proc EXCEPT ![p] = Idle]
  /\ UNCHANGED <<sheet, writer, debugSheet, received, log, page, calls>>

\* Lines 125-131: the call of the spreadsheet service that the execution is
\* about to make raises inside the try (at "respond": the formatting of lines
\* 113-116 or the getLastRow of line 122).
StoreThrows(p) ==
  /\ proc[p].pc \in {"getLastRow", "appendHeader", "findDuplicate", "getValues",
                     "newRow", "setValues", "respond"}
  /\ Return(p, proc[p], Failure, sheet)
  /\ UNCHANGED <<sheet, writer, debugSheet, received>>

\* A request is served in the first slot that is free.
FreeSlot(p) == \A q \in Procs : q < p => proc[q].pc # "idle"

\* One step of the execution in slot p, other than receiving a request or
\* failing on a call of the spreadsheet service.
Step(p) ==
  \/ HeaderCheck(p)
  \/ AppendHeader(p)
  \/ FindDuplicateLastRow(p)
  \/ FindDuplicateScan(p)
  \/ WriteDebugLog(p)
  \/ PrepareRow(p)
  \/ GetNewRow(p)
  \/ SetValues(p)
  \/ Respond(p)

\* Executions run concurrently against the one sheet.
Next ==
  \E p \in Procs :
    \/ /\ received < MaxRequests
       /\ FreeSlot(p)
       /\ \E request \in Requests : DoPost(p, request)
    \/ Step(p)

Spec == Init /\ [][Next]_vars

\* ----------------------------------------------- sequential specification
\* Requests are served strictly one after the other: a request arrives only
\* when no execution is in progress.
NextSeq ==
  \/ /\ received < MaxSeqRequests
     /\ \A q \in Procs : proc[q].pc = "idle"
     /\ \E request \in SeqRequests : ParseFails(1, request) \/ DoPost(1, request)
  \/ Step(1)
  \/ StoreThrows(1)

SpecSeq == Init /\ [][NextSeq]_vars

\* -------------------------------------------------- matcher specification
\* One unforced request against a sheet that earlier accepted requests filled.
StoredReceipts ==
  { Receipt(m, d, t, Undefined, NoItems, Bool(TRUE)) :
      m \in {AcmePadded, Undefined}, d \in {Jan1Padded, Undefined},
      t \in {Ten00, Undefined} }

MatchRequests ==
  { WellFormed(Receipt(m, d, t, Undefined, NoItems, Undefined)) :
      m \in {Acme, AcmePadded, Bolt, Undefined},
      d \in {Jan1, Jan1Padded, Jan2, Undefined},
      t \in {Ten00, Ten00Padded, Ten01, Undefined} }

\* The sheet after the receipts rs were accepted one after the other.
SheetOf(rs) == <<HeaderRow>> \o [i \in 1..Len(rs) |-> RowData(rs[i], i)]

StoredSheets ==
  UNION { { SheetOf(rs) : rs \in [1..k -> StoredReceipts] } : k \in 1..MaxStored }

InitMatch ==
  /\ sheet \in StoredSheets
  /\ writer = [i \in 1..Len(sheet) |-> IF i = 1 THEN 1 ELSE i - 1]
  /\ debugSheet = [exists |-> FALSE, rows |-> <<>>]
  /\ proc = [p \in Procs |-> Idle]
  /\ received = DataRowCount(sheet)
  /\ log = <<>>
  /\ page = ClosedPage
  /\ calls = <<>>

NextMatch ==
  \/ /\ log = <<>>
     /\ \E request \in MatchRequests : DoPost(1, request)
  \/ HeaderCheck(1)
  \/ FindDuplicateLastRow(1)
  \/ FindDuplicateScan(1)
  \/ WriteDebugLog(1)
  \/ PrepareRow(1)
  \/ GetNewRow(1)
  \/ SetValues(1)
  \/ Respond(1)

SpecMatch == InitMatch /\ [][NextMatch]_vars

\* ------------------------------------------------------------ migrateOldRows
\* A migration that adds the Date and Total text to what the raw cells hold.
MigratedRowAppending(row) ==
  [row EXCEPT ![10] = IF Truthy(row[1])
                      THEN Str(ToStringChars(@) \o ToStringChars(row[1])) ELSE @,
              ![11] = IF Truthy(row[4])
                      THEN Str(ToStringChars(@) \o ToStringChars(row[4])) ELSE @]

\* Lines 257-273, one turn of the loop: the Date cell (row[0]) and the Total
\* cell (row[3]), when truthy, are written as text to columns 10 and 11.
MigratedRow(row) ==
  [row EXCEPT ![10] = IF Truthy(row[1]) THEN Str(ToStringChars(row[1])) ELSE @,
              ![11] = IF Truthy(row[4]) THEN Str(ToStringChars(row[4])) ELSE @]

\* Lines 238-277: the sheet a run of migrateOldRows leaves.
MigrateSheet(sh) ==
  IF Len(sh) <= 1 THEN sh
  ELSE [i \in 1..Len(sh) |-> IF i = 1 THEN sh[i] ELSE MigratedRow(sh[i])]

\* migrateOldRows is run by hand from the spreadsheet while no request is
\* being served.
MigrateOldRows ==
  /\ \A q \in Procs : proc[q].pc = "idle"
  /\ sheet' = MigrateSheet(sheet)
  /\ UNCHANGED <<writer, debugSheet, proc, received, log, page, calls>>

\* The requests of the migration specification: date and total present or
\* absent.
MigrateRequests ==
  { WellFormed(Receipt(Acme, d, t, USD, NoItems, Undefined)) :
      d \in {Jan1, Undefined}, t \in {Ten00, Undefined} }

\* Requests served one after the other, and runs of migrateOldRows between
\* them.
NextMigrate ==
  \/ /\ received < MaxMigrateRequests
     /\ \A q \in Procs : proc[q].pc = "idle"
     /\ \E request \in MigrateRequests : DoPost(1, request)
  \/ Step(1)
  \/ MigrateOldRows

SpecMigrate == Init /\ [][NextMigrate]_vars

\* ------------------------------------------------------------- toggleDetails
\* toggleDetails leaving the other panels as they are.
ToggledAlone(pg, detailsId) ==
  LET isActive == pg.active[detailsId] IN
  [active |-> [pg.active EXCEPT ![detailsId] = ~isActive],
   ariaExpanded |-> [pg.ariaExpanded EXCEPT
                       ![detailsId] = IF isActive THEN "false" ELSE "true"]]

\* eco/script.js lines 52-82: the page a call of toggleDetails(detailsId) that
\* finds the panel leaves.  Every other panel loses 'active' and its row gets
\* aria-expanded 'false' (58-67); the panel named is closed if it was active
\* and opened otherwise, its row's aria-expanded following (70-75).  The
\* scrolling of lines 78-80 changes nothing of this state.
Toggled(pg, detailsId) ==
  LET isActive == pg.active[detailsId] IN
  [active |-> [d \in Panels |-> IF d # detailsId THEN FALSE ELSE ~isActive],
   ariaExpanded |-> [d \in Panels |->
                       IF d # detailsId THEN "false"
                       ELSE IF isActive THEN "false" ELSE "true"]]

\* The record of a call, kept with the call before it.
Called(detailsId, threw) ==
  LET call == [id |-> detailsId, threw |-> threw,
               wasActive |-> IF detailsId \in Panels THEN page.active[detailsId]
                             ELSE FALSE]
  IN IF calls = <<>> THEN <<call>> ELSE <<calls[Len(calls)], call>>

\* toggleDetails(detailsId), the id naming a panel.
ToggleDetails(detailsId) ==
  /\ detailsId \in Panels
  /\ page' = Toggled(page, detailsId)
  /\ calls' = Called(detailsId, FALSE)
  /\ UNCHANGED <<sheet, writer, debugSheet, proc, received, log>>

\* toggleDetails(detailsId), the id naming no element: getElementById gives
\* null and line 55 raises a TypeError before anything is changed.
ToggleDetailsThrows(detailsId) ==
  /\ detailsId \notin Panels
  /\ calls' = Called(detailsId, TRUE)
  /\ UNCHANGED <<sheet, writer, debugSheet, proc, received, log, page>>

\* eco/script.js lines 172-179: a key goes down on a result row whose
\* aria-controls attribute is detailsId, or is not set.
KeyDown(key, hasControls, detailsId) ==
  IF key \in {"Enter", " "} /\ hasControls
  THEN ToggleDetails(detailsId) \/ ToggleDetailsThrows(detailsId)
  ELSE UNCHANGED vars

\* The page in any state, then clicks and keys in any order.
InitToggle ==
  /\ sheet = <<>>
  /\ writer = <<>>
  /\ debugSheet = [exists |-> FALSE, rows |-> <<>>]
  /\ proc = [p \in Procs |-> Idle]
  /\ received = 0
  /\ log = <<>>
  /\ page \in [active : [Panels -> BOOLEAN], ariaExpanded : [Panels -> AriaValues]]
  /\ calls = <<>>

NextToggle ==
  \/ \E detailsId \in Ids : ToggleDetails(detailsId)
  \/ \E detailsId \in Ids : ToggleDetailsThrows(detailsId)
  \/ \E key \in {"Enter", " ", "Tab"}, hasControls \in BOOLEAN, detailsId \in Ids :
       KeyDown(key, hasControls, detailsId)

SpecToggle == InitToggle /\ [][NextToggle]_vars

\* ------------------------------------------------------------------- claims
Finished == 1..Len(log)

\* Two finished executions, the second received after the first returned,
\* carrying the same request.
Resubmitted(i, j) ==
  /\ i \in Finished /\ j \in Finished /\ j = i + 1
  /\ log[j].before >= i
  /\ log[j].data = log[i].data

\* C1: a receipt with force unset, submitted twice in strict sequence and
\* accepted the first time, is reported a duplicate the second time, against
\* the row the first submission reported (unless the second submission fails).
C1_AcceptedThenDuplicate ==
  \A i, j \in Finished :
    ( /\ Resubmitted(i, j)
      /\ ~Truthy(log[i].data.force)
      /\ log[i].response.kind = "Accepted"
      /\ log[j].response.kind # "Failure" )
    => /\ log[j].response.kind = "Duplicate"
       /\ log[j].response.row = log[i].response.row

\* C2: a receipt submitted twice in strict sequence with force set is accepted
\* both times without a duplicate check, and the ledger gains two rows at
\* different positions (when neither submission fails).
C2_ForceTwice ==
  \A i, j \in Finished :
    ( /\ Resubmitted(i, j)
      /\ Truthy(log[i].data.force)
      /\ log[i].response.kind # "Failure"
      /\ log[j].response.kind # "Failure" )
    => /\ log[i].response.kind = "Accepted"
       /\ log[j].response.kind = "Accepted"
       /\ ~log[i].checked /\ ~log[j].checked
       /\ log[i].response.row # log[j].response.row
       /\ log[j].endRows = log[i].startRows + 2

\* C2 witness: a forced receipt has been accepted twice in a row.
C2_Witness ==
  \E i, j \in Finished :
    /\ Resubmitted(i, j)
    /\ Truthy(log[i].data.force)
    /\ log[i].response.kind = "Accepted"
    /\ log[j].response.kind = "Accepted"

\* C3 as stated: an execution that returns Duplicate has written nothing, to
\* the ledger or to any other sheet.
C3_DuplicateWritesNothing ==
  \A i \in Finished :
    log[i].response.kind = "Duplicate" => log[i].wrote = {}

\* C3 as amended: an execution that returns Duplicate ran the duplicate check
\* and has written no row of receipts; what it may have written is the debug
\* record and, before its check, the header of an empty sheet.
C3_DuplicateWritesNoRow ==
  \A i \in Finished :
    log[i].response.kind = "Duplicate"
    => /\ log[i].checked
       /\ "row" \notin log[i].wrote
       /\ log[i].rowData = <<>>
       /\ log[i].response.row \in 2..Len(sheet)

\* C3 witness: a Duplicate was returned by an execution that wrote the debug
\* record and, racing with the request it duplicates, the header.
C3_Witness ==
  \E i \in Finished :
    /\ log[i].response.kind = "Duplicate"
    /\ log[i].wrote = {"header", "debug"}

\* C4: an execution that returns Failure has written neither the header nor a
\* row of receipts.
C4_FailureWritesNothing ==
  \A i \in Finished :
    log[i].response.kind = "Failure"
    => "header" \notin log[i].wrote /\ "row" \notin log[i].wrote

\* C5: every Accepted submission has added a row of its own, which no later
\* submission overwrites or removes: its row stays in the ledger.
C5_AppendOnly ==
  \A k \in Finished :
    log[k].response.kind = "Accepted"
    => \E i \in 2..Len(sheet) : writer[i] = log[k].id /\ sheet[i] = log[k].rowData

\* C6: a sheet that is not empty has the header in row 1 and nowhere else.
C6_HeaderOnce ==
  Len(sheet) > 0 =>
    /\ sheet[1] = HeaderRow
    /\ \A i \in 2..Len(sheet) : sheet[i] # HeaderRow

\* Two finished executions of which the one that returned second had been
\* received before the other returned.
Overlapped(i, j) ==
  \/ i < j /\ log[j].before < i
  \/ j < i /\ log[i].before < j

\* Rows r1 < r2 of the ledger are the rows two finished unforced executions
\* i and j wrote, and row r1 is a duplicate of the receipt j submitted.
DoubleEntry(r1, r2, i, j) ==
  /\ r1 < r2
  /\ log[i].id = writer[r1] /\ sheet[r1] = log[i].rowData
  /\ log[j].id = writer[r2] /\ sheet[r2] = log[j].rowData
  /\ ~Truthy(log[i].data.force) /\ ~Truthy(log[j].data.force)
  /\ RowMatches(sheet[r1], log[j].data)

\* C7: the ledger holds a row and, below it, a duplicate of that row written
\* by an unforced request only if the two executions overlapped in time: the
\* check and the append are two steps, and an execution run on its own, after
\* the other returned, reports the duplicate instead.
C7_DoubleEntryOnlyByOverlap ==
  \A r1, r2 \in 2..Len(sheet) : \A i, j \in Finished :
    DoubleEntry(r1, r2, i, j) => Overlapped(i, j)

\* C7 witness: two unforced executions carrying the same receipt both passed
\* findDuplicate and both appended: the ledger holds two rows for the receipt.
C7_Witness ==
  \E r1, r2 \in 2..Len(sheet) : \E i, j \in Finished :
    /\ DoubleEntry(r1, r2, i, j)
    /\ log[i].data = log[j].data
    /\ log[i].checked /\ log[j].checked
    /\ log[i].response.kind = "Accepted" /\ log[j].response.kind = "Accepted"

\* ---- the three-predicate rule, stated on texts
\* The text of a value that is a string; the empty text when it is absent.
TextOf(v) == IF v.t = "string" THEN v.s ELSE <<>>

\* The text between the first and the last character that is not a space.
Core(text) ==
  LET inked == {i \in 1..Len(text) : text[i] # " "} IN
  IF inked = {} THEN <<>>
  ELSE SubSeq(text, CHOOSE i \in inked : \A k \in inked : i <= k,
                    CHOOSE i \in inked : \A k \in inked : i >= k)

SameText(a, b) == Core(a) = Core(b)

SameTextIgnoringCase(a, b) ==
  /\ Len(Core(a)) = Len(Core(b))
  /\ \A i \in 1..Len(Core(a)) : LowerChar(Core(a)[i]) = LowerChar(Core(b)[i])

\* The stored texts the rule compares: the Merchant column; the Raw Date
\* column or, when it is empty, the Date column; likewise for the total.
MerchantText(row) == TextOf(row[3])
DateText(row) == IF TextOf(row[10]) # <<>> THEN TextOf(row[10]) ELSE TextOf(row[1])
TotalText(row) == IF TextOf(row[11]) # <<>> THEN TextOf(row[11]) ELSE TextOf(row[4])

SameMerchant(row, r) == SameTextIgnoringCase(MerchantText(row), TextOf(r.merchantName))
SameDate(row, r) == SameText(DateText(row), TextOf(r.date))
SameTotal(row, r) == SameText(TotalText(row), TextOf(r.total))

\* C8: a Duplicate response names the lowest row that matches the candidate,
\* among the rows below the header taken in storage order.
C8_LowestMatchingRow ==
  \A e \in Finished :
    log[e].response.kind = "Duplicate"
    => LET k == log[e].response.row - 1
           data == log[e].values
           r == log[e].data
       IN /\ data = SubSeq(sheet, 2, Len(sheet))
          /\ k \in 1..Len(data)
          /\ SameMerchant(data[k], r) /\ SameDate(data[k], r) /\ SameTotal(data[k], r)
          /\ \A m \in 1..(k - 1) :
               ~(SameMerchant(data[m], r) /\ SameDate(data[m], r) /\ SameTotal(data[m], r))

\* C8 witness: several stored rows match the candidate and the duplicate is
\* reported against row 2, the first of them.
C8_Witness ==
  \E e \in Finished :
    /\ log[e].response.kind = "Duplicate"
    /\ log[e].response.row = 2
    /\ Len(log[e].values) >= 2
    /\ \A m \in 1..Len(log[e].values) :
         /\ SameMerchant(log[e].values[m], log[e].data)
         /\ SameDate(log[e].values[m], log[e].data)
         /\ SameTotal(log[e].values[m], log[e].data)

\* C9: whenever a stored row and the candidate have the same merchant up to
\* letter case and surrounding spaces, and the same date text and total text up
\* to surrounding spaces, the check reports a duplicate, at that row or above.
C9_SameTextsMatch ==
  \A e \in Finished :
    log[e].checked /\ log[e].response.kind # "Failure"
    => \A k \in 1..Len(log[e].values) :
         ( /\ SameMerchant(log[e].values[k], log[e].data)
           /\ SameDate(log[e].values[k], log[e].data)
           /\ SameTotal(log[e].values[k], log[e].data) )
         => /\ log[e].response.kind = "Duplicate"
            /\ log[e].response.row <= k + 1

\* C9 witness: a duplicate was reported although merchant, date and total are
\* all written differently in the stored row and in the candidate.
C9_Witness ==
  \E e \in Finished :
    /\ log[e].response.kind = "Duplicate"
    /\ LET row == log[e].values[log[e].response.row - 1]
           r == log[e].data
       IN /\ MerchantText(row) # TextOf(r.merchantName)
          /\ ToLowerCase(MerchantText(row)) # ToLowerCase(TextOf(r.merchantName))
          /\ Core(MerchantText(row)) # Core(TextOf(r.merchantName))
          /\ DateText(row) # TextOf(r.date)
          /\ TotalText(row) # TextOf(r.total)

\* The number of the three predicates that fail for a stored row.
Differences(row, r) ==
  (IF SameMerchant(row, r) THEN 0 ELSE 1) + (IF SameDate(row, r) THEN 0 ELSE 1)
    + (IF SameTotal(row, r) THEN 0 ELSE 1)

\* C10: a row is reported as the duplicate only if merchant, date and total
\* all agree with the candidate; a candidate that differs from every stored
\* row in at least one of the three is accepted.
C10_AllThreeRequired ==
  \A e \in Finished :
    log[e].checked
    => /\ \A k \in 1..Len(log[e].values) :
            Differences(log[e].values[k], log[e].data) >= 1
            => ~(log[e].response.kind = "Duplicate" /\ log[e].response.row = k + 1)
       /\ (\A k \in 1..Len(log[e].values) :
             Differences(log[e].values[k], log[e].data) >= 1)
          => log[e].response.kind = "Accepted"

\* C10 witness: the candidate was accepted although a stored row differs from
\* it in the total alone, 10.00 against 10.01.
C10_Witness ==
  \E e \in Finished :
    /\ log[e].response.kind = "Accepted"
    /\ log[e].checked
    /\ log[e].data.total = Ten01
    /\ \E k \in 1..Len(log[e].values) :
         /\ SameMerchant(log[e].values[k], log[e].data)
         /\ SameDate(log[e].values[k], log[e].data)
         /\ TotalText(log[e].values[k]) = Ten00.s
         /\ Differences(log[e].values[k], log[e].data) = 1

\* C11: when findDuplicate finds the sheet with no row or with the header row
\* only, it reads no range and scans nothing and returns null, so the doPost
\* that called it does not return Duplicate.
C11_NoDuplicateInEmptySheet ==
  /\ \A p \in Procs :
       proc[p].checked /\ proc[p].lastRow <= 1
       => /\ ~proc[p].scanned /\ proc[p].values = <<>>
          /\ proc[p].duplicate = NoDuplicate
          /\ proc[p].pc # "getValues"
  /\ \A e \in Finished :
       log[e].checked /\ log[e].lastRow <= 1
       => /\ ~log[e].scanned /\ log[e].values = <<>>
          /\ log[e].response.kind # "Duplicate"

\* C11 witness: an unforced request whose findDuplicate found the header row
\* only was accepted, although another row that matches it was being written.
C11_Witness ==
  \E e \in Finished :
    /\ log[e].checked /\ log[e].lastRow = 1
    /\ log[e].response.kind = "Accepted"
    /\ \E i \in 2..Len(sheet) :
         writer[i] # log[e].id /\ RowMatches(sheet[i], log[e].data)

\* The executions in progress.
Running == { p \in Procs : proc[p].pc # "idle" }

\* The rows below the header that execution id wrote last.
RowsOf(id) == { i \in 2..Len(sheet) : writer[i] = id }

\* C12: every doPost invocation that has ended returned exactly one response,
\* which is Accepted with a row, Duplicate with a row, or Failure; a request
\* that cannot be parsed and a store access that raises end in Failure; and
\* nothing is tried again: an execution writes at most one ledger row and an
\* execution that fails writes none after the failure.
C12_OneStructuredResponse ==
  /\ Len(log) + Cardinality(Running) = received
  /\ \A e, f \in Finished : log[e].id = log[f].id => e = f
  /\ \A p \in Procs, e \in Finished : proc[p].pc # "idle" => proc[p].id # log[e].id
  /\ \A e \in Finished :
       /\ log[e].response.kind \in {"Accepted", "Duplicate", "Failure"}
       /\ log[e].response.kind = "Accepted" =>
            log[e].response = Accepted(log[e].response.row) /\ log[e].response.row >= 2
       /\ log[e].response.kind = "Duplicate" =>
            /\ log[e].response.row >= 2
            /\ log[e].response.existingReceipt # NoDuplicate.data
       /\ log[e].response.kind = "Failure" => log[e].response = Failure
       /\ log[e].data = NoReceipt =>
            log[e].response = Failure /\ log[e].wrote = {}
       /\ Cardinality(RowsOf(log[e].id)) <= 1
       /\ RowsOf(log[e].id) # {} => "row" \in log[e].wrote

\* C12 witness: of three requests one could not be parsed and failed, one
\* failed on a store access after it was parsed, and one was accepted.
C12_Witness ==
  \E e, f, g \in Finished :
    /\ log[e].response = Failure /\ log[e].data = NoReceipt
    /\ log[f].response = Failure /\ log[f].data # NoReceipt
    /\ ~ItemsTextThrows(log[f].data)
    /\ log[g].response.kind = "Accepted"

\* C13: the Raw Date and Raw Total cells of every ledger row doPost wrote hold
\* the date and the total text of the request that wrote the row (the empty
\* text when the request has none), whatever runs of migrateOldRows followed.
C13_RawCellsOfRequest ==
  \A i \in 2..Len(sheet), e \in Finished :
    log[e].id = writer[i] /\ "row" \in log[e].wrote
    => /\ TextOf(sheet[i][10]) = TextOf(log[e].data.date)
       /\ TextOf(sheet[i][11]) = TextOf(log[e].data.total)

\* C14: a second run of migrateOldRows leaves the sheet the first run leaves,
\* and a run keeps the number of rows, the header row and every cell outside
\* the Raw Date and Raw Total columns.
C14_MigrateIdempotentRawOnly ==
  LET once == MigrateSheet(sheet) IN
    /\ MigrateSheet(once) = once
    /\ Len(once) = Len(sheet)
    /\ \A i \in 1..Len(sheet) :
         /\ Len(once[i]) = Len(sheet[i])
         /\ \A c \in 1..Len(sheet[i]) :
              (i = 1 \/ c \notin {10, 11}) => once[i][c] = sheet[i][c]

\* C14 witness: a run has changed a raw cell (the row of a request without
\* total now holds the Total column's text there), another run would change
\* nothing, and the row count is that of the accepted requests.
C14_Witness ==
  \E i \in 2..Len(sheet), e \in Finished :
    /\ log[e].id = writer[i] /\ log[e].response.kind = "Accepted"
    /\ log[e].rowData[11] = EmptyStr
    /\ sheet[i][11] # EmptyStr
    /\ sheet[i] = MigratedRow(log[e].rowData)
    /\ MigrateSheet(sheet) = sheet
    /\ Len(sheet) = 3

\* "<description> x<quantity> @ <currency> <price>" with the currency given.
RenderedItem(item, currency) ==
  ToStringChars(item.description) \o <<" ","x">> \o ToStringChars(item.quantity)
    \o <<" ","@"," ">> \o ToStringChars(currency) \o <<" ">>
    \o ToStringChars(item.price)

\* The items from item i on, in input order, joined with "; ".
RECURSIVE RenderedItems(_, _, _)
RenderedItems(items, i, currency) ==
  IF i = Len(items) THEN RenderedItem(items[i], currency)
  ELSE RenderedItem(items[i], currency) \o <<";"," ">>
         \o RenderedItems(items, i + 1, currency)

\* C15: the row of every accepted receipt holds the number of items as Item
\* Count and, as items text, "No items" when items is absent or empty and
\* otherwise the items in input order, each rendered with the currency the
\* row's Currency cell holds, joined with "; ".
C15_ItemsOfAcceptedRow ==
  \A e \in Finished :
    log[e].response.kind = "Accepted" =>
      LET row == log[e].rowData
          items == IF log[e].data.items.t = "array" THEN log[e].data.items.a
                   ELSE <<>>
      IN /\ row[7] = Num(Len(items))
         /\ row[8] = IF Len(items) = 0 THEN Str(<<"N","o"," ","i","t","e","m","s">>)
                     ELSE Str(RenderedItems(items, 1, row[5]))

\* C16: the row an Accepted response reports is the row the execution computed
\* before the write and wrote, and that ledger row holds the receipt of that
\* very request, also when executions interleave.
C16_ReportedRowHoldsReceipt ==
  \A e \in Finished :
    log[e].response.kind = "Accepted" =>
      /\ log[e].response.row = log[e].newRow
      /\ log[e].response.row \in 2..Len(sheet)
      /\ writer[log[e].response.row] = log[e].id
      /\ sheet[log[e].response.row] = log[e].rowData

\* The panels that have the 'active' class.
ActivePanels == { d \in Panels : page.active[d] }

\* The latest call of toggleDetails returned.
LastCallReturned == calls # <<>> /\ ~calls[Len(calls)].threw

\* The last two calls were of the same panel and both returned.
CalledTwice ==
  /\ Len(calls) = 2
  /\ ~calls[1].threw /\ ~calls[2].threw
  /\ calls[1].id = calls[2].id

\* After a call of toggleDetails that returned: at most one panel is active,
\* the row of every other panel has aria-expanded 'false', and the row of the
\* panel named has aria-expanded 'true' exactly when the panel is active.
OneOpenPanel ==
  LastCallReturned =>
    LET target == calls[Len(calls)].id IN
      /\ Cardinality(ActivePanels) <= 1
      /\ \A d \in Panels \ {target} :
           ~page.active[d] /\ page.ariaExpanded[d] = "false"
      /\ page.ariaExpanded[target] = "true" <=> page.active[target]
      /\ page.ariaExpanded[target] \in {"true", "false"}

\* C17 as stated: after every call of toggleDetails that returned, from any
\* page state, one panel at most is open with the aria-expanded attributes
\* following, and after two calls of the same id the panel is inactive.
C17_TwiceIsInactive ==
  /\ OneOpenPanel
  /\ CalledTwice => ~page.active[calls[2].id]

\* C17 amended: after every call of toggleDetails that returned, from any
\* page state, one panel at most is open with the aria-expanded attributes
\* following, and after two calls of the same id the panel is as it was before
\* the two calls: inactive if it was inactive, active if it was active.
C17_TwiceRestores ==
  /\ OneOpenPanel
  /\ CalledTwice =>
       /\ calls[2].wasActive = ~calls[1].wasActive
       /\ page.active[calls[2].id] = calls[1].wasActive

\* C17 witness: a panel that was active has been toggled twice in succession
\* and is the one active panel again.
C17_Witness ==
  /\ CalledTwice
  /\ calls[1].wasActive
  /\ ActivePanels = {calls[2].id}
  /\ page.ariaExpanded[calls[2].id] = "true"

=============================================================================
